---- MODULE Spec2Model ----
(***************************************************************************)
(* ShopGenie WhatsApp bot: the webhook's message dispatcher                *)
(* (routes/whatsapp.js, processMessage and its handlers) together with the *)
(* session store (UserService.updateUserSession / getUserSession), the     *)
(* retailer credentials (AuthService) and the cart (CartService).          *)
(*                                                                         *)
(* One user is modelled: every table is keyed by user id and no handler    *)
(* reads another user's rows.  Message texts are strings; the regular      *)
(* expressions and the lower-case/trim step of the dispatcher are computed *)
(* character by character.                                                 *)
(***************************************************************************)
EXTENDS Integers, Sequences, FiniteSets, TLC

VARIABLES
  userExists,   \* a row of table users exists for the sender
  allowed,      \* users.allowed
  session,      \* users.session_data (JSONB object), a record
  credentials,  \* retailer_credentials: retailer -> NoRow or [login_id, login_type]
  address,      \* the primary address: "none", "unconfirmed", "confirmed"
  activeCart,   \* id of the cart with status 'draft', 0 when there is none
  cartItems,    \* cart_items of the active cart: sequence of [name, option, retailer]
  lastMsg,      \* the message handled last: [text, type]
  trace,        \* handlers and collaborators called while handling lastMsg
  replies,      \* replies sent while handling lastMsg
  saved,        \* credentials saved while handling lastMsg
  added,        \* items added to a cart while handling lastMsg
  otp,          \* the OTP generated last (the code only logs it), "none" at first
  inflight,     \* concurrent handleSkipItem calls: [pc, userSession, stale] each
  carts,        \* carts.status of the user's rows, in the order of their ids
  ordering,     \* concurrent handleOrderIntent calls: [pc, cart] each
  classifier    \* the aiService.parseMessage call made last: what the remote
                \* models answered, the attempts made and the result

vars == <<userExists, allowed, session, credentials, address, activeCart,
          cartItems, lastMsg, trace, replies, saved, added, otp, inflight,
          carts, ordering, classifier>>

Null == "null"

\* the concurrent requests of one user that the model follows
Handlers == {1, 2}

\* a request that has read nothing; stale marks a session read that another
\* handler's write has made out of date
IdleHandler == [pc |-> "idle", userSession |-> <<>>, stale |-> FALSE]

\* a request that has not reached the cart lookup of handleOrderIntent
IdleOrder == [pc |-> "idle", cart |-> 0]

\* no row of retailer_credentials for a retailer
NoRow == [login_id |-> Null, login_type |-> Null]

(***************************************************************************)
(* Bounds of the model.                                                    *)
(***************************************************************************)
\* checkout_current_item is not advanced beyond this value
MaxIndex == 2
\* the largest number of rows of table carts explored
MaxCarts == 3
\* the longest list getMixedProductSuggestions answers with
MaxSuggestions == 1
\* the largest number of entries of selected_order_items explored
MaxSelected == 2

(***************************************************************************)
(* Strings: JavaScript's toLowerCase, trim and the regular expressions.    *)
(***************************************************************************)
Ch(s, i) == SubSeq(s, i, i)

UpperChars == {"A","B","C","D","E","F","G","H","I","J","K","L","M",
               "N","O","P","Q","R","S","T","U","V","W","X","Y","Z"}

LowerChars == {"a","b","c","d","e","f","g","h","i","j","k","l","m",
               "n","o","p","q","r","s","t","u","v","w","x","y","z"}

DigitChars == {"0","1","2","3","4","5","6","7","8","9"}

\* \s of the regular expressions (the texts of the model hold only blanks)
IsSpace(c) == c = " "

\* \d
IsDigit(c) == c \in DigitChars

\* \w
IsWordChar(c) == c \in UpperChars \cup LowerChars \cup DigitChars \cup {"_"}

LowerOf(c) ==
  CASE c = "A" -> "a" [] c = "B" -> "b" [] c = "C" -> "c" [] c = "D" -> "d"
    [] c = "E" -> "e" [] c = "F" -> "f" [] c = "G" -> "g" [] c = "H" -> "h"
    [] c = "I" -> "i" [] c = "J" -> "j" [] c = "K" -> "k" [] c = "L" -> "l"
    [] c = "M" -> "m" [] c = "N" -> "n" [] c = "O" -> "o" [] c = "P" -> "p"
    [] c = "Q" -> "q" [] c = "R" -> "r" [] c = "S" -> "s" [] c = "T" -> "t"
    [] c = "U" -> "u" [] c = "V" -> "v" [] c = "W" -> "w" [] c = "X" -> "x"
    [] c = "Y" -> "y" [] c = "Z" -> "z" [] OTHER -> c

RECURSIVE toLowerCase(_)
toLowerCase(s) ==
  IF Len(s) = 0 THEN ""
  ELSE LowerOf(Ch(s, 1)) \o toLowerCase(SubSeq(s, 2, Len(s)))

RECURSIVE TrimLeft(_)
TrimLeft(s) ==
  IF Len(s) > 0 /\ IsSpace(Ch(s, 1)) THEN TrimLeft(SubSeq(s, 2, Len(s))) ELSE s

RECURSIVE TrimRight(_)
TrimRight(s) ==
  IF Len(s) > 0 /\ IsSpace(Ch(s, Len(s)))
  THEN TrimRight(SubSeq(s, 1, Len(s) - 1)) ELSE s

trim(s) == TrimRight(TrimLeft(s))

\* message.toLowerCase().trim()
lowerMessageOf(message) == trim(toLowerCase(message))

startsWith(s, p) == Len(s) >= Len(p) /\ SubSeq(s, 1, Len(p)) = p

\* s.replace(p, '') for a prefix p the caller has tested with startsWith
DropPrefix(s, p) == SubSeq(s, Len(p) + 1, Len(s))

\* the number of leading characters of s, from position i on, that satisfy
\* the class: digits (D), word characters (W) or white space (S)
RECURSIVE Run(_, _, _)
Run(s, i, class) ==
  IF i > Len(s) THEN 0
  ELSE LET c == Ch(s, i)
           ok == CASE class = "D" -> IsDigit(c)
                   [] class = "W" -> IsWordChar(c)
                   [] class = "S" -> IsSpace(c)
       IN IF ok THEN 1 + Run(s, i + 1, class) ELSE 0

\* s.replace(/\s/g, '')
RECURSIVE StripSpaces(_)
StripSpaces(s) ==
  IF Len(s) = 0 THEN ""
  ELSE (IF IsSpace(Ch(s, 1)) THEN "" ELSE Ch(s, 1)) \o StripSpaces(SubSeq(s, 2, Len(s)))

DigitValue(c) ==
  CASE c = "0" -> 0 [] c = "1" -> 1 [] c = "2" -> 2 [] c = "3" -> 3 [] c = "4" -> 4
    [] c = "5" -> 5 [] c = "6" -> 6 [] c = "7" -> 7 [] c = "8" -> 8 [] c = "9" -> 9

\* parseInt of a string of digits
RECURSIVE parseInt(_)
parseInt(s) ==
  IF Len(s) = 0 THEN 0
  ELSE 10 * parseInt(SubSeq(s, 1, Len(s) - 1)) + DigitValue(Ch(s, Len(s)))

NoMatch == <<>>

\* ^(<class>+)\s+for\s+(.+)$ : the two groups, or NoMatch.  The head class is
\* "D" for /^(\d+)\s+for\s+(.+)$/ and "W" for /^(\w+)\s+for\s+(.+)$/.
ForPattern(s, class) ==
  LET h  == Run(s, 1, class)
      s1 == Run(s, h + 1, "S")
      f  == h + s1 + 1
      s2 == Run(s, f + 3, "S")
      r  == f + 3 + s2
  IN IF /\ h >= 1 /\ s1 >= 1
        /\ f + 2 <= Len(s)
        /\ SubSeq(s, f, f + 2) = "for"
        /\ s2 >= 1
        /\ r <= Len(s)
     THEN <<SubSeq(s, 1, h), SubSeq(s, r, Len(s))>>
     ELSE NoMatch
\* a dispatcher whose numeric-selection pattern matches nothing, so that a
\* '<digits> for <text>' message falls through to the later patterns
productSelectionPatternOff(s) == NoMatch

\* /^(\d+)\s+for\s+(.+)$/i
productSelectionPattern(s) == ForPattern(s, "D")

\* /^(\w+)\s+for\s+(.+)$/i
retailerSelectionPattern(s) == ForPattern(s, "W")

\* a pattern stage without the all-selection pattern
allSelectionPatternOff(s) == NoMatch

\* /^all\s+(\d+)$/i : the group, or NoMatch
allSelectionPattern(s) ==
  LET sp == Run(s, 4, "S")
      d  == Run(s, 4 + sp, "D")
  IN IF startsWith(s, "all") /\ sp >= 1 /\ d >= 1 /\ 3 + sp + d = Len(s)
     THEN <<SubSeq(s, 4 + sp, Len(s))>>
     ELSE NoMatch

\* /^skip\s+(.+)$/i : the group, or NoMatch
skipPattern(s) ==
  LET sp == Run(s, 5, "S")
  IN IF startsWith(s, "skip") /\ sp >= 1 /\ 4 + sp < Len(s)
     THEN <<SubSeq(s, 5 + sp, Len(s))>>
     ELSE NoMatch

\* /^\+?[1-9]\d{1,14}$/ on phoneNumber.replace(/\s/g, '')
phoneRegex(s) ==
  LET p == IF startsWith(s, "+") THEN 1 ELSE 0
      d == Run(s, p + 1, "D")
  IN /\ d >= 2 /\ d <= 15
     /\ p + d = Len(s)
     /\ Ch(s, p + 1) # "0"

\* /^\d{6}$/
otpRegex(s) == Len(s) = 6 /\ Run(s, 1, "D") = 6

\* [^\s@]+ from position i on
RECURSIVE RunNotSpaceAt(_, _)
RunNotSpaceAt(s, i) ==
  IF i > Len(s) \/ IsSpace(Ch(s, i)) \/ Ch(s, i) = "@" THEN 0
  ELSE 1 + RunNotSpaceAt(s, i + 1)

\* /^[^\s@]+@[^\s@]+\.[^\s@]+$/
emailRegex(s) ==
  LET l == RunNotSpaceAt(s, 1)
      d == RunNotSpaceAt(s, l + 2)
  IN /\ l >= 1
     /\ l < Len(s) /\ Ch(s, l + 1) = "@"
     /\ l + 1 + d = Len(s)
     /\ \E k \in (l + 3)..(Len(s) - 1) : Ch(s, k) = "."

(***************************************************************************)
(* The session store (UserService).  users.session_data is a JSONB column  *)
(* with DEFAULT '{}' (database/connection.js), so a user's row always      *)
(* holds an object; an object is a record whose fields are its keys.       *)
(***************************************************************************)
EmptySession == <<>>

\* PostgreSQL's jsonb || jsonb: the keys of both, the right operand winning
JsonbConcat(a, b) ==
  [k \in DOMAIN a \cup DOMAIN b |-> IF k \in DOMAIN b THEN b[k] ELSE a[k]]

\* a store whose update replaces the stored object
updateUserSessionReplace(data, sessionData) == sessionData

\* UPDATE users SET session_data = COALESCE(session_data, '{}') || $1
updateUserSession(data, sessionData) == JsonbConcat(data, sessionData)

\* SELECT session_data FROM users: the stored object
getUserSession(data) == data

\* userSession.k is undefined or not: the values stored under the keys of
\* the model (non-empty strings, true, arrays, cart ids >= 1) are all truthy,
\* except checkout_current_item, which the handlers read with "|| 0"
Has(obj, k) == k \in DOMAIN obj

\* { ...obj, k: v }
With(obj, k, v) == JsonbConcat(obj, [x \in {k} |-> v])

(***************************************************************************)
(* config/retailers.js                                                     *)
(***************************************************************************)
SUPPORTED_RETAILERS == {"zepto", "blinkit", "instamart"}

\* the retailer's entry is found or not
getRetailerByName(name) == name \in SUPPORTED_RETAILERS

(***************************************************************************)
(* The world a message is handled in: the rows of the user's tables and    *)
(* what handling the message has called, sent, saved and added so far.     *)
(***************************************************************************)
Call(w, name) == [w EXCEPT !.trace = Append(@, name)]

\* whatsappService.sendMessage(from, <the text named by tag>)
sendMessage(w, tag) == [w EXCEPT !.replies = Append(@, tag)]

SetSession(w, sessionData) ==
  [w EXCEPT !.session = updateUserSession(@, sessionData)]

(***************************************************************************)
(* AuthService                                                             *)
(***************************************************************************)
\* the trace entry of a query on retailer_credentials that fails; the
\* error's message names the table
StorageError == "throw retailer_credentials"

\* INSERT or UPDATE of the row (user, retailer)
saveRetailerCredentials(w, retailer, loginId, loginType) ==
  [w EXCEPT !.credentials = [@ EXCEPT ![retailer] =
                                [login_id |-> loginId, login_type |-> loginType]],
            !.saved = Append(@, [retailer |-> retailer, login_id |-> loginId,
                                 login_type |-> loginType])]

hasRetailerCredentials(w, retailer) == w.credentials[retailer] # NoRow

\* the retailers the user has rows for
getAllRetailerCredentials(w) == {r \in DOMAIN w.credentials : w.credentials[r] # NoRow}

\* a delete that removes no row
deleteAllRetailerCredentialsNone(w) == w

\* DELETE FROM retailer_credentials WHERE user_id = $1
deleteAllRetailerCredentials(w) ==
  [w EXCEPT !.credentials = [r \in DOMAIN w.credentials |-> NoRow]]

(***************************************************************************)
(* The authentication flow                                                 *)
(***************************************************************************)
\* a handler that starts the flow for an already connected retailer too
handleAuthenticationIntentAgain(w0, parsedIntent) ==
  LET w == Call(w0, "handleAuthenticationIntent")
  IN IF ~Has(parsedIntent, "retailer")
     THEN sendMessage(w, "available_retailers")
     ELSE IF ~getRetailerByName(parsedIntent.retailer)
     THEN sendMessage(w, "retailer_not_supported")
     ELSE sendMessage(SetSession(w, [retailer |-> parsedIntent.retailer]),
                      "choose_login_method")

handleAuthenticationIntent(w0, parsedIntent) ==
  LET w == Call(w0, "handleAuthenticationIntent")
  IN IF ~Has(parsedIntent, "retailer")
     THEN sendMessage(w, "available_retailers")
     ELSE IF ~getRetailerByName(parsedIntent.retailer)
     THEN sendMessage(w, "retailer_not_supported")
     ELSE IF hasRetailerCredentials(w, parsedIntent.retailer)
     THEN sendMessage(w, "already_connected")
     ELSE sendMessage(SetSession(w, [retailer |-> parsedIntent.retailer]),
                      "choose_login_method")

handlePhoneLoginMethod(w0) ==
  LET w == Call(w0, "handlePhoneLoginMethod")
      userSession == getUserSession(w.session)
  IN sendMessage(
       SetSession(w, [auth_flow |-> "phone_login",
                      auth_step |-> "phone_input",
                      retailer  |-> IF Has(userSession, "retailer")
                                    THEN userSession.retailer ELSE "zepto"]),
       "enter_phone_number")

\* a handler that stores the flow and leaves the step for later
handleEmailLoginMethodFlowOnly(w0) ==
  sendMessage(SetSession(Call(w0, "handleEmailLoginMethod"),
                         [auth_flow |-> "email_login"]),
              "enter_email")

handleEmailLoginMethod(w0) ==
  LET w == Call(w0, "handleEmailLoginMethod")
  IN sendMessage(
       SetSession(w, [auth_flow |-> "email_login", auth_step |-> "email_input"]),
       "enter_email")

\* user.retailer of lines 1352 and 1452: user is the row of table users,
\* which has no column retailer, so the value is undefined
UserRowRetailer == Null

handlePhoneNumberInput(w0, phoneNumber, generated) ==
  LET w == Call(w0, "handlePhoneNumberInput")
  IN IF ~phoneRegex(StripSpaces(phoneNumber))
     THEN sendMessage(w, "invalid_phone")
     ELSE sendMessage(
            SetSession([w EXCEPT !.otp = generated],
                          [auth_flow    |-> "phone_login",
                           auth_step    |-> "otp_input",
                           phone_number |-> phoneNumber,
                           retailer     |-> IF UserRowRetailer # Null
                                            THEN UserRowRetailer ELSE "zepto"]),
            "otp_sent")

\* a handler that accepts only the OTP generated last
handleOTPInputVerified(w0, otpCode, storage) ==
  LET w == Call(w0, "handleOTPInput")
      userSession == getUserSession(w.session)
  IN IF ~otpRegex(otpCode) \/ otpCode # w.otp
     THEN sendMessage(w, "invalid_otp")
     ELSE IF storage # "ok"
     THEN sendMessage(Call(w, StorageError), "error")
     ELSE sendMessage(
            SetSession(saveRetailerCredentials(w, userSession.retailer,
                                               userSession.phone_number, "phone"),
                       EmptySession),
            "auth_success")

\* storage: "ok", or the INSERT of saveRetailerCredentials fails with an error
\* that names retailer_credentials; the handler's own catch answers it
handleOTPInput(w0, otpCode, storage) ==
  LET w == Call(w0, "handleOTPInput")
      userSession == getUserSession(w.session)
      retailer == IF Has(userSession, "retailer") THEN userSession.retailer ELSE "zepto"
      loginId == IF Has(userSession, "phone_number")
                 THEN userSession.phone_number ELSE Null
  IN IF ~otpRegex(otpCode)
     THEN sendMessage(w, "invalid_otp")
     ELSE IF storage # "ok"
     THEN sendMessage(Call(w, StorageError), "error")
     ELSE sendMessage(
            SetSession(saveRetailerCredentials(w, retailer, loginId, "phone"),
                       EmptySession),
            "auth_success")

handleEmailInput(w0, email) ==
  LET w == Call(w0, "handleEmailInput")
  IN IF ~emailRegex(email)
     THEN sendMessage(w, "invalid_email")
     ELSE sendMessage(
            SetSession(w, [auth_flow |-> "email_login",
                           auth_step |-> "password_input",
                           email     |-> email,
                           retailer  |-> IF UserRowRetailer # Null
                                         THEN UserRowRetailer ELSE "zepto"]),
            "enter_password")

\* a handler without its try/catch: the storage error leaves the handler
handlePasswordInputUncaught(w0, password, storage) ==
  LET w == Call(w0, "handlePasswordInput")
      userSession == getUserSession(w.session)
      retailer == IF Has(userSession, "retailer") THEN userSession.retailer ELSE "zepto"
      loginId == IF Has(userSession, "email") THEN userSession.email ELSE Null
  IN IF storage # "ok"
     THEN [Call(w, StorageError) EXCEPT !.thrown = StorageError]
     ELSE sendMessage(
            SetSession(saveRetailerCredentials(w, retailer, loginId, "email"),
                       EmptySession),
            "auth_success")

\* storage: as for handleOTPInput
handlePasswordInput(w0, password, storage) ==
  LET w == Call(w0, "handlePasswordInput")
      userSession == getUserSession(w.session)
      retailer == IF Has(userSession, "retailer") THEN userSession.retailer ELSE "zepto"
      loginId == IF Has(userSession, "email") THEN userSession.email ELSE Null
  IN IF storage # "ok"
     THEN sendMessage(Call(w, StorageError), "error")
     ELSE sendMessage(
            SetSession(saveRetailerCredentials(w, retailer, loginId, "email"),
                       EmptySession),
            "auth_success")

\* a handler that sends a new OTP in every session state
handleResendOTPAlways(w0, generated) ==
  sendMessage([Call(w0, "handleResendOTP") EXCEPT !.otp = generated], "new_otp_sent")

handleResendOTP(w0, generated) ==
  LET w == Call(w0, "handleResendOTP")
      userSession == getUserSession(w.session)
  IN IF ~(/\ Has(userSession, "auth_flow") /\ userSession.auth_flow = "phone_login"
          /\ Has(userSession, "auth_step") /\ userSession.auth_step = "otp_input")
     THEN sendMessage(w, "no_active_otp")
     ELSE sendMessage([w EXCEPT !.otp = generated], "new_otp_sent")

(***************************************************************************)
(* CartService.  While the messages of a user are handled one after the    *)
(* other the user has at most one cart: createCart is called only when     *)
(* getActiveCart finds none, and no handler closes a cart.  A cart         *)
(* item is [name, option, retailer]: the item name, the product option     *)
(* chosen for it (0: none, the row carries the bare item name) and the     *)
(* retailer selected at checkout ("none": not selected).  Quantities are   *)
(* not modelled; every add is recorded in w.added.                         *)
(***************************************************************************)
NoCart == 0

getActiveCart(w) == w.activeCart

\* UPDATE carts SET status = 'cancelled' WHERE user_id = $2 AND status = 'draft'
CancelDrafts(rows) ==
  [i \in DOMAIN rows |-> IF rows[i] = "draft" THEN "cancelled" ELSE rows[i]]

\* the ids of the rows with status 'draft'
Drafts(rows) == {i \in DOMAIN rows : rows[i] = "draft"}

\* the two statements of createCart; the new cart's id is the next serial.
\* The new cart is the latest draft and has no items.
createCart(w) ==
  [w EXCEPT !.carts = Append(CancelDrafts(@), "draft"),
            !.activeCart = Len(w.carts) + 1,
            !.cartItems = <<>>]

CartHas(items, name, option) ==
  \E i \in 1..Len(items) : items[i].name = name /\ items[i].option = option

\* the row of the item is inserted, or its quantity raised when it exists
addItemToCart(w, cartId, item) ==
  [w EXCEPT !.cartItems = IF CartHas(@, item.name, 0) THEN @
                          ELSE Append(@, [name |-> item.name, option |-> 0,
                                          retailer |-> "none"]),
            !.added = Append(@, [name |-> item.name, option |-> 0])]

\* as addItemToCart, the row carrying the selected product
addItemToCartWithProduct(w, cartId, item, selectedProduct) ==
  [w EXCEPT !.cartItems = IF CartHas(@, selectedProduct.item, selectedProduct.option)
                          THEN @
                          ELSE Append(@, [name |-> selectedProduct.item,
                                          option |-> selectedProduct.option,
                                          retailer |-> "none"]),
            !.added = Append(@, [name |-> selectedProduct.item,
                                 option |-> selectedProduct.option])]

\* the rows of the cart, oldest first
getCartItemsCombined(w) == w.cartItems

\* UPDATE cart_items SET product_name = <the product's name>
\*  WHERE LOWER(product_name) = LOWER(itemName)
updateCartItemWithProduct(w, itemName, selectedProduct) ==
  [w EXCEPT !.cartItems =
     [i \in 1..Len(@) |->
        IF @[i].name = itemName /\ @[i].option = 0
        THEN [@[i] EXCEPT !.option = selectedProduct.option] ELSE @[i]]]

\* the rows named itemName get the selected retailer
updateCartItemWithRetailer(w, itemName, retailer) ==
  [w EXCEPT !.cartItems =
     [i \in 1..Len(@) |->
        IF @[i].name = itemName /\ @[i].option = 0
        THEN [@[i] EXCEPT !.retailer = retailer] ELSE @[i]]]

\* DELETE FROM cart_items WHERE cart_id = $1
clearCart(w) == [w EXCEPT !.cartItems = <<>>]

\* the product_name column of the rows
ProductNames(items) ==
  [i \in 1..Len(items) |-> [name |-> items[i].name, option |-> items[i].option]]

(***************************************************************************)
(* The checkout flow                                                       *)
(***************************************************************************)
showFinalCheckoutCart(w0) ==
  LET w == Call(w0, "showFinalCheckoutCart")
  IN sendMessage(w, "final_checkout_cart")

\* a walk that shows the final cart one answer late
showNextCheckoutItemLate(w0, items, currentIndex) ==
  LET w == Call(w0, "showNextCheckoutItem")
  IN IF currentIndex > Len(items)
     THEN showFinalCheckoutCart(w)
     ELSE sendMessage(Call(w, "scrapePriceComparison"), "checkout_item")

showNextCheckoutItem(w0, items, currentIndex) ==
  LET w == Call(w0, "showNextCheckoutItem")
  IN IF currentIndex >= Len(items)
     THEN showFinalCheckoutCart(w)
     ELSE sendMessage(Call(w, "scrapePriceComparison"), "checkout_item")

\* a handler that starts the checkout of an empty cart too
handleCheckoutIntentAnyCart(w0) ==
  LET w == Call(w0, "handleCheckoutIntent")
  IN IF getAllRetailerCredentials(w) = {}
     THEN sendMessage(w, "connect_retailers_first")
     ELSE IF getActiveCart(w) = NoCart
     THEN sendMessage(w, "cart_empty")
     ELSE showNextCheckoutItem(
            SetSession(w, [checkout_mode         |-> TRUE,
                           checkout_step         |-> "item_selection",
                           checkout_items        |-> ProductNames(getCartItemsCombined(w)),
                           checkout_current_item |-> 0]),
            getCartItemsCombined(w), 0)

handleCheckoutIntent(w0) ==
  LET w == Call(w0, "handleCheckoutIntent")
  IN IF getAllRetailerCredentials(w) = {}
     THEN sendMessage(w, "connect_retailers_first")
     ELSE IF getActiveCart(w) = NoCart
     THEN sendMessage(w, "cart_empty")
     ELSE IF Len(getCartItemsCombined(w)) = 0
     THEN sendMessage(w, "cart_empty")
     ELSE showNextCheckoutItem(
            SetSession(w, [checkout_mode         |-> TRUE,
                           checkout_step         |-> "item_selection",
                           checkout_items        |-> ProductNames(getCartItemsCombined(w)),
                           checkout_current_item |-> 0]),
            getCartItemsCombined(w), 0)

\* userSession.selected_order_items || []
Selected(userSession) ==
  IF Has(userSession, "selected_order_items")
  THEN userSession.selected_order_items ELSE <<>>

\* userSession.checkout_current_item || 0
CurrentIndex(userSession) ==
  IF Has(userSession, "checkout_current_item")
  THEN userSession.checkout_current_item ELSE 0

handleRetailerSelectionForCheckout(w0, retailer, itemName, price) ==
  LET w == Call(w0, "handleRetailerSelectionForCheckout")
      userSession == getUserSession(w.session)
      nextIndex == CurrentIndex(userSession) + 1
  IN IF ~Has(userSession, "checkout_mode")
     THEN sendMessage(w, "no_active_checkout")
     ELSE IF price = "N/A"
     THEN sendMessage(Call(w, "scrapePriceComparison"), "no_price_available")
     ELSE LET w1 == sendMessage(
                      updateCartItemWithRetailer(Call(w, "scrapePriceComparison"),
                                                 itemName, retailer),
                      "retailer_selected")
              w2 == SetSession(w1, With(userSession, "checkout_current_item", nextIndex))
          IN showNextCheckoutItem(w2, getCartItemsCombined(w2), nextIndex)

handleSkipItem(w0, itemName) ==
  LET w == Call(w0, "handleSkipItem")
      userSession == getUserSession(w.session)
      nextIndex == CurrentIndex(userSession) + 1
  IN IF ~Has(userSession, "checkout_mode")
     THEN sendMessage(w, "no_active_checkout")
     ELSE LET w1 == sendMessage(w, "skipped")
          IN IF getActiveCart(w1) = NoCart
             THEN sendMessage(w1, "error")
             ELSE LET w2 == SetSession(w1, With(userSession, "checkout_current_item",
                                                nextIndex))
                  IN showNextCheckoutItem(w2, getCartItemsCombined(w2), nextIndex)

handleConfirmOrder(w0) ==
  LET w == Call(w0, "handleConfirmOrder")
  IN IF getActiveCart(w) = NoCart
     THEN sendMessage(w, "error")
     ELSE sendMessage(SetSession(w, EmptySession), "order_confirmed")

\* a handler that resets the index outside a checkout too
handleEditCartAnytime(w0) ==
  LET w == Call(w0, "handleEditCart")
      userSession == getUserSession(w.session)
      w1 == SetSession(w, With(userSession, "checkout_current_item", 0))
  IN IF getActiveCart(w1) = NoCart
     THEN sendMessage(w1, "error")
     ELSE showNextCheckoutItem(w1, getCartItemsCombined(w1), 0)

handleEditCart(w0) ==
  LET w == Call(w0, "handleEditCart")
      userSession == getUserSession(w.session)
  IN IF ~Has(userSession, "checkout_mode")
     THEN sendMessage(w, "no_active_checkout")
     ELSE LET w1 == SetSession(w, With(userSession, "checkout_current_item", 0))
          IN IF getActiveCart(w1) = NoCart
             THEN sendMessage(w1, "error")
             ELSE showNextCheckoutItem(w1, getCartItemsCombined(w1), 0)

(***************************************************************************)
(* The order flow and the product selection                                *)
(***************************************************************************)
\* the length of getMixedProductSuggestions(itemName)'s answer
SuggestionCount(sugg, itemName) ==
  IF itemName \in DOMAIN sugg THEN sugg[itemName] ELSE 0

\* mixedSuggestions[selectionNumber - 1] for the search itemName
Product(itemName, selectionNumber) == [item |-> itemName, option |-> selectionNumber]

\* orderItems.find(item => item.name === itemName): a one-element or empty set
FindItem(orderItems, itemName) ==
  {orderItems[i] : i \in {j \in 1..Len(orderItems) :
      /\ orderItems[j].name = itemName
      /\ \A k \in 1..(j - 1) : orderItems[k].name # itemName}}

\* { ...orderItems.find(..), selectedProduct }
SelectedItem(orderItems, itemName, selectedProduct) ==
  LET found == FindItem(orderItems, itemName)
  IN IF found = {} THEN [selectedProduct |-> selectedProduct]
     ELSE With(CHOOSE it \in found : TRUE, "selectedProduct", selectedProduct)

\* selectedItems.findIndex(item => item.name === itemName), 0 for -1
FindIndex(selectedItems, itemName) ==
  LET hits == {i \in 1..Len(selectedItems) :
                 Has(selectedItems[i], "name") /\ selectedItems[i].name = itemName}
  IN IF hits = {} THEN 0 ELSE CHOOSE i \in hits : \A j \in hits : i <= j

showOrderSuggestions(w0, parsedIntent) ==
  LET w == Call(w0, "showOrderSuggestions")
  IN IF ~Has(parsedIntent, "items")
     THEN [w EXCEPT !.thrown = "TypeError"]
     ELSE sendMessage(w, "product_suggestions")

\* a handler that serves the order of a user without retailer accounts too
handleOrderIntentUnconnected(w0, parsedIntent, addressValid) ==
  LET w == Call(w0, "handleOrderIntent")
  IN IF Has(parsedIntent, "address") /\ addressValid
     THEN sendMessage([Call(w, "saveAddress") EXCEPT !.address = "unconfirmed"],
                      "confirm_address")
     ELSE IF w.address = "none"
     THEN sendMessage(w, "provide_address")
     ELSE sendMessage(w, "confirm_address")

handleOrderIntent(w0, parsedIntent, addressValid) ==
  LET w == Call(w0, "handleOrderIntent")
  IN IF getAllRetailerCredentials(w) = {}
     THEN sendMessage(w, "connect_retailers_first")
     ELSE IF Has(parsedIntent, "address") /\ addressValid
     THEN sendMessage([Call(w, "saveAddress") EXCEPT !.address = "unconfirmed"],
                      "confirm_address")
     ELSE IF w.address = "none"
     THEN sendMessage(w, "provide_address")
     ELSE IF w.address = "unconfirmed"
     THEN sendMessage(w, "confirm_address")
     ELSE LET w1 == IF getActiveCart(w) = NoCart THEN createCart(Call(w, "createCart"))
                    ELSE w
              base == [order_mode |-> TRUE, order_cart_id |-> getActiveCart(w1)]
              w2 == SetSession(w1, IF Has(parsedIntent, "items")
                                   THEN With(base, "order_items", parsedIntent.items)
                                   ELSE base)
          IN showOrderSuggestions(w2, parsedIntent)

handleOrderModeProductSelection(w0, parsedIntent, sugg) ==
  LET w == Call(w0, "handleOrderModeProductSelection")
      userSession == getUserSession(w.session)
      n == parsedIntent.selectionNumber
      orderItems == IF Has(userSession, "order_items") THEN userSession.order_items
                    ELSE <<>>
  IN IF Has(parsedIntent, "selectAll")
     THEN LET Offered(it) == n <= SuggestionCount(sugg, it.name)
              chosen == SelectSeq(orderItems, Offered)
              selectedItems ==
                [i \in 1..Len(chosen) |->
                   With(chosen[i], "selectedProduct", Product(chosen[i].name, n))]
          IN sendMessage(
               SetSession(w, With(userSession, "selected_order_items", selectedItems)),
               "selected_for_all")
     ELSE LET itemName == parsedIntent.itemName
              old == IF Has(userSession, "selected_order_items")
                     THEN userSession.selected_order_items ELSE <<>>
              entry == SelectedItem(orderItems, itemName, Product(itemName, n))
              existingIndex == FindIndex(old, itemName)
              selectedItems == IF existingIndex > 0
                               THEN [old EXCEPT ![existingIndex] = entry]
                               ELSE Append(old, entry)
          IN IF n > SuggestionCount(sugg, itemName)
             THEN sendMessage(w, "invalid_selection")
             ELSE sendMessage(
                    SetSession(w, With(userSession, "selected_order_items",
                                       selectedItems)),
                    "selected")

handleSingleProductSelection(w0, itemName, selectionNumber, sugg) ==
  LET w == Call(w0, "handleSingleProductSelection")
  IN IF ~CartHas(getCartItemsCombined(w), itemName, 0)
     THEN sendMessage(w, "no_suggestions_found")
     ELSE IF selectionNumber > SuggestionCount(sugg, itemName)
     THEN sendMessage(w, "invalid_selection")
     ELSE sendMessage(
            updateCartItemWithProduct(w, itemName, Product(itemName, selectionNumber)),
            "selected")

handleAllProductSelection(w0, selectionNumber, sugg) ==
  LET w == Call(w0, "handleAllProductSelection")
      items == getCartItemsCombined(w)
  IN sendMessage(
       [w EXCEPT !.cartItems =
          [i \in 1..Len(items) |->
             IF selectionNumber <= SuggestionCount(sugg, items[i].name)
             THEN [items[i] EXCEPT !.option = selectionNumber] ELSE items[i]]],
       "selected_for_all")

handleProductSelection(w0, parsedIntent, sugg) ==
  LET w == Call(w0, "handleProductSelection")
      userSession == getUserSession(w.session)
  IN IF ~Has(parsedIntent, "selectionNumber") \/ parsedIntent.selectionNumber < 1
     THEN sendMessage(w, "invalid_selection_number")
     ELSE IF Has(userSession, "order_mode")
     THEN handleOrderModeProductSelection(w, parsedIntent, sugg)
     ELSE IF getActiveCart(w) = NoCart
     THEN sendMessage(w, "no_active_cart")
     ELSE IF Has(parsedIntent, "selectAll")
     THEN handleAllProductSelection(w, parsedIntent.selectionNumber, sugg)
     ELSE handleSingleProductSelection(w, parsedIntent.itemName,
                                       parsedIntent.selectionNumber, sugg)

\* the loop of handleAddSelectedToCart over selectedItems, from index i on
RECURSIVE AddSelected(_, _, _, _)
AddSelected(w, cartId, selectedItems, i) ==
  IF i > Len(selectedItems) THEN w
  ELSE LET item == selectedItems[i]
       IN AddSelected(
            IF Has(item, "selectedProduct")
            THEN addItemToCartWithProduct(w, cartId, item, item.selectedProduct)
            ELSE addItemToCart(w, cartId, item),
            cartId, selectedItems, i + 1)

handleAddSelectedToCart(w0) ==
  LET w == Call(w0, "handleAddSelectedToCart")
      userSession == getUserSession(w.session)
  IN IF ~Has(userSession, "order_mode") \/ ~Has(userSession, "selected_order_items")
     THEN sendMessage(w, "no_items_selected")
     ELSE IF ~Has(userSession, "order_cart_id")
     THEN sendMessage(w, "no_active_cart_found")
     ELSE sendMessage(
            SetSession(AddSelected(w, userSession.order_cart_id,
                                   userSession.selected_order_items, 1),
                       EmptySession),
            "added_to_cart")

(***************************************************************************)
(* The handlers of the classifier's other intents and of the simple        *)
(* commands                                                                *)
(***************************************************************************)
\* the loop of handleAddItemIntent over parsedIntent.items, from index i on
RECURSIVE AddItems(_, _, _, _)
AddItems(w, cartId, items, i) ==
  IF i > Len(items) THEN w
  ELSE AddItems(addItemToCart(w, cartId, items[i]), cartId, items, i + 1)

handleAddItemIntent(w0, parsedIntent) ==
  LET w == Call(w0, "handleAddItemIntent")
  IN IF getAllRetailerCredentials(w) = {}
     THEN sendMessage(w, "connect_retailers_first")
     ELSE IF getActiveCart(w) = NoCart
     THEN sendMessage(w, "no_active_cart")
     ELSE IF ~Has(parsedIntent, "items")
     THEN [w EXCEPT !.thrown = "TypeError"]
     ELSE sendMessage(
            sendMessage(AddItems(w, getActiveCart(w), parsedIntent.items, 1),
                        "added_to_cart"),
            "product_suggestions")

handleRemoveItemIntent(w0) ==
  LET w == Call(w0, "handleRemoveItemIntent")
  IN IF getActiveCart(w) = NoCart
     THEN sendMessage(w, "no_active_cart")
     ELSE sendMessage(w, "remove_not_available")

handleShowPricesIntent(w0) ==
  LET w == Call(w0, "handleShowPricesIntent")
  IN IF getAllRetailerCredentials(w) = {}
     THEN sendMessage(w, "connect_retailers_first")
     ELSE IF getActiveCart(w) = NoCart
     THEN sendMessage(w, "no_active_cart")
     ELSE sendMessage(w, "price_comparison")

handleShowCartIntent(w0) ==
  LET w == Call(w0, "handleShowCartIntent")
  IN IF getActiveCart(w) = NoCart
     THEN sendMessage(w, "cart_empty")
     ELSE IF Len(getCartItemsCombined(w)) = 0
     THEN sendMessage(w, "cart_empty")
     ELSE sendMessage(w, "your_cart")

handleShowConnectedRetailers(w0) ==
  LET w == Call(w0, "handleShowConnectedRetailers")
  IN IF getAllRetailerCredentials(w) = {}
     THEN sendMessage(w, "no_connected_retailers")
     ELSE sendMessage(w, "connected_retailers")

sendHelpMessage(w0) == sendMessage(Call(w0, "sendHelpMessage"), "help")

\* UPDATE addresses SET confirmed = true WHERE user_id = $1 AND is_primary
confirmAddress(w) ==
  [w EXCEPT !.address = IF @ = "none" THEN "none" ELSE "confirmed"]

handleAddressConfirmation(w0, parsedIntent) ==
  LET w == Call(w0, "handleAddressConfirmation")
  IN IF Has(parsedIntent, "confirmed") /\ parsedIntent.confirmed
     THEN sendMessage(confirmAddress(w), "address_confirmed")
     ELSE sendMessage(w, "provide_correct_address")

\* s.includes(c) for a character c
RECURSIVE Includes(_, _)
Includes(s, c) ==
  IF Len(s) = 0 THEN FALSE
  ELSE Ch(s, 1) = c \/ Includes(SubSeq(s, 2, Len(s)), c)

\* /^\+?[\d\s\-\(\)]+$/
RECURSIVE PhoneLike(_, _)
PhoneLike(s, i) ==
  IF i > Len(s) THEN TRUE
  ELSE /\ \/ IsDigit(Ch(s, i)) \/ IsSpace(Ch(s, i)) \/ Ch(s, i) \in {"-", "(", ")"}
          \/ i = 1 /\ Ch(s, i) = "+" /\ Len(s) > 1
       /\ PhoneLike(s, i + 1)

\* s.includes(sub)
RECURSIVE IncludesStr(_, _)
IncludesStr(s, sub) ==
  IF Len(s) < Len(sub) THEN FALSE
  ELSE startsWith(s, sub) \/ IncludesStr(SubSeq(s, 2, Len(s)), sub)

\* AuthService.testRetailerLogin(..).success: the simulated login fails for
\* a login id or a password that contains 'test' (and for a missing password,
\* whose .includes throws inside testRetailerLogin's own try)
testRetailerLogin(parsedIntent) ==
  /\ ~IncludesStr(parsedIntent.login_id, "test")
  /\ Has(parsedIntent, "password")
  /\ ~IncludesStr(parsedIntent.password, "test")

handleCredentialInput(w0, parsedIntent) ==
  LET w == Call(w0, "handleCredentialInput")
  IN IF ~Has(parsedIntent, "retailer")
     THEN sendMessage(w, "error_saving_credentials")
     ELSE IF ~getRetailerByName(parsedIntent.retailer)
     THEN sendMessage(w, "retailer_not_supported")
     ELSE IF ~Has(parsedIntent, "login_id")
     THEN sendMessage(w, "error_saving_credentials")
     ELSE LET login_id == parsedIntent.login_id
              isEmail == Includes(login_id, "@")
              isPhone == Len(login_id) > 0 /\ PhoneLike(login_id, 1)
              loginType == IF isEmail THEN "email"
                           ELSE IF isPhone THEN "phone" ELSE "email"
          IN IF ~testRetailerLogin(parsedIntent)
             THEN sendMessage(Call(w, "testRetailerLogin"), "login_failed")
             ELSE sendMessage(
                    saveRetailerCredentials(Call(w, "testRetailerLogin"),
                                            parsedIntent.retailer, login_id, loginType),
                    "credentials_saved")

\* the choices go to carts.retailer_choices, which no handler reads back
handleRetailerSelection(w0) ==
  LET w == Call(w0, "handleRetailerSelection")
  IN IF getAllRetailerCredentials(w) = {}
     THEN sendMessage(w, "connect_retailers_first")
     ELSE IF getActiveCart(w) = NoCart
     THEN sendMessage(w, "no_active_cart")
     ELSE sendMessage(Call(w, "updateRetailerChoices"), "final_cart_summary")

\* location is what the message's JSON and the geocoder give: "bad_json",
\* "incomplete", "no_address" or "ok"
handleLocationMessage(w0, location) ==
  LET w == Call(w0, "handleLocationMessage")
  IN CASE location = "bad_json"   -> sendMessage(w, "location_unreadable")
       [] location = "incomplete" -> sendMessage(w, "location_incomplete")
       [] location = "no_address" -> sendMessage(w, "location_no_address")
       [] OTHER -> sendMessage([Call(w, "saveAddress") EXCEPT !.address = "unconfirmed"],
                               "confirm_address")

(***************************************************************************)
(* The inbound texts of the model.                                         *)
(***************************************************************************)
ItemNames == {"milk", "bread"}

\* the names a product search is made for: the items and one name no order holds
SearchNames == ItemNames \cup {"eggs"}

\* the message types of STEP 1
LocationTypes == {"application/vnd.geo+json", "location"}

\* the messages of the shopping flows (order, checkout) with the commands
\* that cut across them, and a shared location
InboundMessages ==
  [text : { "clear session", "reset", "clear all", "reset all",
            "phone", "checkout", "cancel checkout", "cancel order",
            "confirm order", "skip milk", "zepto for milk",
            "1 for milk", "3 for milk", "1 for bread", "add selected",
            "zepto a@b.co hunter2", "order milk and bread to 12 Main St",
            "yes", "order milk and bread",
            "help", "show cart", "prices", "my retailers", "edit cart" },
   type : {"text"}]
    \cup [text : {"{json}"}, type : LocationTypes]
    \cup {[text |-> "help", type |-> "location"],
          [text |-> "reset", type |-> "application/vnd.geo+json"]}

\* the messages of the login flows
AuthMessages ==
  [text : { "clear session", "reset all", "Login Blinkit", "login zepto",
            "login amazon", "phone", "1", "email", "2", "resend otp", "resend",
            "+919876543210", "482913", "12345", "a@b.co", "hunter2",
            "connect my account", "connect blinkit" },
   type : {"text"}]

CartMessages ==
  [text : { "zepto a@b.co hunter2", "deliver to 12 Main St", "yes", "add bread",
            "order milk and bread", "1 for milk", "1 for eggs", "all 1",
            "checkout", "zepto for bread", "skip bread", "edit cart",
            "cancel checkout" },
   type : {"text"}]

\* the messages around the unsubscribe command
SubscriptionMessages ==
  [text : { "stop", "unsubscribe", "start", "help", "show cart", "phone",
            "zepto a@b.co hunter2", "deliver to 12 Main St", "yes",
            "order milk and bread", "add bread", "checkout" },
   type : {"text"}]

Texts == {m.text : m \in InboundMessages \cup AuthMessages \cup CartMessages
                         \cup SubscriptionMessages}

(***************************************************************************)
(* processMessage: the dispatcher.  PatternStage is the chain of tests of  *)
(* STEP 3 on lowerMessage, in the order of the code, giving the branch     *)
(* taken ("none": no direct pattern matches); Branch adds the tests before *)
(* it (new user, location) and after it (STEP 4, the active auth step).    *)
(***************************************************************************)
PatternStage(lowerMessage) ==
  IF lowerMessage \in {"clear session", "reset"} THEN "clear_session"
  ELSE IF lowerMessage \in {"clear all", "reset all"} THEN "clear_all"
  ELSE IF lowerMessage \in {"help", "start"} THEN "help"
  ELSE IF lowerMessage \in {"stop", "unsubscribe"} THEN "stop"
  ELSE IF lowerMessage \in {"show cart", "view cart"} THEN "show_cart"
  ELSE IF lowerMessage \in {"show prices", "prices"} THEN "show_prices"
  ELSE IF lowerMessage = "checkout" THEN "checkout"
  ELSE IF lowerMessage \in {"connected retailers", "show connected", "my retailers",
                            "my loginned apps", "my logged in apps", "logged in apps"}
       THEN "connected_retailers"
  ELSE IF startsWith(lowerMessage, "login ") THEN "login"
  ELSE IF lowerMessage \in {"phone", "1"} THEN "phone_method"
  ELSE IF lowerMessage \in {"email", "2"} THEN "email_method"
  ELSE IF lowerMessage \in {"resend otp", "resend"} THEN "resend_otp"
  ELSE IF productSelectionPattern(lowerMessage) # NoMatch THEN "product_selection"
  ELSE IF allSelectionPattern(lowerMessage) # NoMatch THEN "all_selection"
  ELSE IF lowerMessage \in {"cancel checkout", "cancel order"} THEN "cancel_checkout"
  ELSE IF lowerMessage = "confirm order" THEN "confirm_order"
  ELSE IF lowerMessage = "edit cart" THEN "edit_cart"
  ELSE IF retailerSelectionPattern(lowerMessage) # NoMatch THEN "retailer_for_item"
  ELSE IF skipPattern(lowerMessage) # NoMatch THEN "skip_item"
  ELSE IF lowerMessage = "add selected" THEN "add_selected"
  ELSE IF lowerMessage = "cancel order" THEN "cancel_order"
  ELSE "none"

\* lowerMessage and the pattern stage's branch of every text of the model
lowerMessageTable == [t \in Texts |-> lowerMessageOf(t)]

PatternStageTable == [t \in Texts |-> PatternStage(lowerMessageTable[t])]

\* a dispatcher that looks at the message type after the text patterns
BranchPatternsFirst(userExists_, userSession, message, messageType) ==
  IF ~userExists_ THEN "new_user"
  ELSE IF PatternStageTable[message] # "none" THEN PatternStageTable[message]
  ELSE IF messageType \in LocationTypes THEN "location"
  ELSE "ai"

\* a dispatcher without the auth-step handlers of STEP 4
BranchWithoutAuthSteps(userExists_, userSession, message, messageType) ==
  IF ~userExists_ THEN "new_user"
  ELSE IF messageType \in LocationTypes THEN "location"
  ELSE IF PatternStageTable[message] # "none" THEN PatternStageTable[message]
  ELSE "ai"

Branch(userExists_, userSession, message, messageType) ==
  IF ~userExists_ THEN "new_user"
  ELSE IF messageType \in LocationTypes THEN "location"
  ELSE IF PatternStageTable[message] # "none" THEN PatternStageTable[message]
  ELSE IF /\ Has(userSession, "auth_flow") /\ userSession.auth_flow = "phone_login"
          /\ Has(userSession, "auth_step") /\ userSession.auth_step = "phone_input"
       THEN "phone_input"
  ELSE IF /\ Has(userSession, "auth_flow") /\ userSession.auth_flow = "phone_login"
          /\ Has(userSession, "auth_step") /\ userSession.auth_step = "otp_input"
       THEN "otp_input"
  ELSE IF /\ Has(userSession, "auth_flow") /\ userSession.auth_flow = "email_login"
          /\ Has(userSession, "auth_step") /\ userSession.auth_step = "email_input"
       THEN "email_input"
  ELSE IF /\ Has(userSession, "auth_flow") /\ userSession.auth_flow = "email_login"
          /\ Has(userSession, "auth_step") /\ userSession.auth_step = "password_input"
       THEN "password_input"
  ELSE "ai"

\* the switch on parsedIntent.intent (STEP 6)
handleParsedIntent(w0, parsedIntent, env) ==
  LET w == Call(w0, "parseMessage")
      intent == parsedIntent.intent
  IN CASE intent = "order" -> handleOrderIntent(w, parsedIntent, env.addressValid)
       [] intent = "add_item" -> handleAddItemIntent(w, parsedIntent)
       [] intent = "remove_item" -> handleRemoveItemIntent(w)
       [] intent = "show_prices" -> handleShowPricesIntent(w)
       [] intent = "show_cart" -> handleShowCartIntent(w)
       [] intent = "address_confirmation" -> handleAddressConfirmation(w, parsedIntent)
       [] intent = "authentication" -> handleAuthenticationIntent(w, parsedIntent)
       [] intent = "credential_input" -> handleCredentialInput(w, parsedIntent)
       [] intent = "product_selection" -> handleProductSelection(w, parsedIntent, env.sugg)
       [] intent = "retailer_selection" -> handleRetailerSelection(w)
       [] OTHER -> sendMessage(w, "did_not_understand")

\* STEP 5: a session with auth_flow and no auth_step is "cleared"
clearStaleSession(w) ==
  IF Has(w.session, "auth_flow") /\ ~Has(w.session, "auth_step")
  THEN SetSession(Call(w, "clearStaleSession"), EmptySession)
  ELSE w

\* the catch of processMessage (lines 345-370); the errors of the model are
\* TypeErrors, which get the generic apology
catchError(w) ==
  IF w.thrown = "none" THEN w
  ELSE IF w.thrown = StorageError
  THEN sendMessage([w EXCEPT !.thrown = "none"], "setup_account")
  ELSE sendMessage([w EXCEPT !.thrown = "none"], "generic_apology")

\* the body of processMessage, branch being the branch its tests select
Dispatch(w, branch, message, env) ==
  LET lowerMessage == lowerMessageTable[message]
      numeric == productSelectionPattern(lowerMessage)
      all == allSelectionPattern(lowerMessage)
      forItem == retailerSelectionPattern(lowerMessage)
      skip == skipPattern(lowerMessage)
  IN catchError(
     CASE branch = "new_user" ->
            sendMessage([Call(w, "createUser") EXCEPT !.userExists = TRUE], "welcome")
       [] branch = "location" -> handleLocationMessage(w, env.location)
       [] branch = "clear_session" ->
            sendMessage(SetSession(Call(w, "clearSession"), EmptySession),
                        "session_cleared")
       [] branch = "clear_all" ->
            LET w1 == deleteAllRetailerCredentials(
                        SetSession(Call(w, "clearAll"), EmptySession))
            IN IF env.storage # "ok"
               THEN [Call(SetSession(Call(w, "clearAll"), EmptySession), StorageError)
                       EXCEPT !.thrown = StorageError]
               ELSE sendMessage(IF getActiveCart(w1) # NoCart THEN clearCart(w1)
                                ELSE w1,
                                "all_data_cleared")
       [] branch = "help" -> sendHelpMessage(w)
       [] branch = "stop" ->
            sendMessage([Call(w, "updateUserAllowed") EXCEPT !.allowed = FALSE],
                        "unsubscribed")
       [] branch = "show_cart" -> handleShowCartIntent(w)
       [] branch = "show_prices" -> handleShowPricesIntent(w)
       [] branch = "checkout" -> handleCheckoutIntent(w)
       [] branch = "connected_retailers" -> handleShowConnectedRetailers(w)
       [] branch = "login" ->
            handleAuthenticationIntent(w,
              [intent |-> "authentication",
               retailer |-> trim(DropPrefix(lowerMessage, "login "))])
       [] branch = "phone_method" -> handlePhoneLoginMethod(w)
       [] branch = "email_method" -> handleEmailLoginMethod(w)
       [] branch = "resend_otp" -> handleResendOTP(w, env.otp)
       [] branch = "product_selection" ->
            handleProductSelection(w,
              [intent |-> "product_selection",
               selectionNumber |-> parseInt(numeric[1]),
               itemName |-> trim(numeric[2])], env.sugg)
       [] branch = "all_selection" ->
            handleProductSelection(w,
              [intent |-> "product_selection",
               selectionNumber |-> parseInt(all[1]),
               itemName |-> "all", selectAll |-> TRUE], env.sugg)
       [] branch = "cancel_checkout" ->
            sendMessage(SetSession(Call(w, "cancelCheckout"), EmptySession),
                        "checkout_cancelled")
       [] branch = "confirm_order" -> handleConfirmOrder(w)
       [] branch = "edit_cart" -> handleEditCart(w)
       [] branch = "retailer_for_item" ->
            handleRetailerSelectionForCheckout(w, toLowerCase(forItem[1]),
                                               trim(forItem[2]), env.price)
       [] branch = "skip_item" -> handleSkipItem(w, trim(skip[1]))
       [] branch = "add_selected" -> handleAddSelectedToCart(w)
       [] branch = "cancel_order" ->
            sendMessage(SetSession(Call(w, "cancelOrder"), EmptySession),
                        "order_cancelled")
       [] branch = "phone_input" -> handlePhoneNumberInput(w, message, env.otp)
       [] branch = "otp_input" -> handleOTPInput(w, message, env.storage)
       [] branch = "email_input" -> handleEmailInput(w, message)
       [] branch = "password_input" -> handlePasswordInput(w, message, env.storage)
       [] OTHER -> handleParsedIntent(clearStaleSession(w), env.parsed, env))

processMessage(w, message, messageType, env) ==
  Dispatch(w, Branch(w.userExists, getUserSession(w.session), message, messageType),
           message, env)

(***************************************************************************)
(* The inputs of the model: the inbound messages and what the external     *)
(* collaborators (classifier, scrapers, geocoder) answer.                  *)
(***************************************************************************)
\* what aiService.parseMessage answers to the free texts of the model; a
\* credential text typed outside an auth step is not understood
ParsedIntents ==
  [ t \in Texts |->
      CASE t = "order milk and bread" ->
             [intent |-> "order", items |-> <<[name |-> "milk"], [name |-> "bread"]>>]
        [] t = "order milk and bread to 12 Main St" ->
             [intent |-> "order", items |-> <<[name |-> "milk"], [name |-> "bread"]>>,
              address |-> "12 Main St"]
        [] t = "deliver to 12 Main St" ->
             [intent |-> "order", items |-> <<>>, address |-> "12 Main St"]
        [] t = "add bread" -> [intent |-> "add_item", items |-> <<[name |-> "bread"]>>]
        [] t = "yes" -> [intent |-> "address_confirmation", confirmed |-> TRUE]
        [] t = "connect my account" -> [intent |-> "authentication"]
        [] t = "connect blinkit" -> [intent |-> "authentication", retailer |-> "blinkit"]
        [] t = "zepto a@b.co hunter2" ->
             [intent |-> "credential_input", retailer |-> "zepto",
              login_id |-> "a@b.co", password |-> "hunter2"]
        [] OTHER -> [intent |-> "unknown"] ]

parseMessage(message) == {ParsedIntents[message]}

(***************************************************************************)
(* AIService.parseMessage: the chain of classifiers.  A remote attempt     *)
(* either throws (Failure) or answers a parsed intent; the regex parser    *)
(* enhancedFallbackParse is local and answers every text.                  *)
(***************************************************************************)
\* this.models
models == <<"gpt-4o-mini", "gpt-3.5-turbo", "gpt-4o">>

\* the attempt threw (network error, quota, invalid JSON)
Failure == [error |-> TRUE]

\* result.confidence < 0.5, in hundredths
ConfidenceThreshold == 50

\* what parseWithOpenAI may give for one model
OpenAIAnswers ==
  {Failure, [intent |-> "order", confidence |-> 90],
            [intent |-> "unknown", confidence |-> 40]}

\* what parseWithHuggingFace may give
HuggingFaceAnswers ==
  {Failure} \cup [intent : {"order", "address_confirmation"}, confidence : {30, 60}]

\* the regex parser's answer
enhancedFallbackParse(message) == ParsedIntents[message]

\* the loop over this.models from index i on: the first answer, with the
\* models tried, or Failure when every model throws
RECURSIVE TryOpenAI(_, _, _)
TryOpenAI(openai, i, tried) ==
  IF i > Len(models) THEN [result |-> Failure, attempts |-> tried]
  ELSE IF openai[i] # Failure
  THEN [result |-> openai[i], attempts |-> Append(tried, models[i])]
  ELSE TryOpenAI(openai, i + 1, Append(tried, models[i]))

\* a chain that returns the Hugging Face answer whatever its confidence
parseMessageChainTrusting(message, openaiDisabled, openai, huggingFace) ==
  LET first == IF openaiDisabled THEN [result |-> Failure, attempts |-> <<>>]
               ELSE TryOpenAI(openai, 1, <<>>)
  IN IF first.result # Failure THEN first
     ELSE IF huggingFace # Failure
     THEN [result |-> huggingFace,
           attempts |-> Append(first.attempts, "parseWithHuggingFace")]
     ELSE [result |-> enhancedFallbackParse(message),
           attempts |-> first.attempts
                          \o <<"parseWithHuggingFace", "enhancedFallbackParse">>]

\* parseMessage: the result and the attempts made, in order
parseMessageChain(message, openaiDisabled, openai, huggingFace) ==
  LET first == IF openaiDisabled THEN [result |-> Failure, attempts |-> <<>>]
               ELSE TryOpenAI(openai, 1, <<>>)
  IN IF first.result # Failure THEN first
     ELSE IF /\ huggingFace # Failure
             /\ ~(huggingFace.confidence < ConfidenceThreshold)
             /\ huggingFace.intent # "address_confirmation"
     THEN [result |-> huggingFace,
           attempts |-> Append(first.attempts, "parseWithHuggingFace")]
     ELSE [result |-> enhancedFallbackParse(message),
           attempts |-> first.attempts
                          \o <<"parseWithHuggingFace", "enhancedFallbackParse">>]

\* the texts the chain is followed for
ParseTexts == {"order milk and bread", "yes", "hunter2"}

\* parseMessage has not been followed yet
NoCall == [called |-> FALSE]

\* the values Math.random() gives the generated OTP
OtpValues == {"482913", "271828"}

SuggestionChoices == [SearchNames -> 0..MaxSuggestions]

DefaultEnv ==
  [parsed |-> [intent |-> "unknown"], sugg |-> [n \in SearchNames |-> 0],
   price |-> "N/A", addressValid |-> FALSE, location |-> "ok",
   otp |-> "482913", storage |-> "ok"]

\* the answers of the collaborators that the branch taken consults
Envs(branch, message) ==
  CASE branch = "location" ->
         {[DefaultEnv EXCEPT !.location = l] :
            l \in IF message = "{json}"
                  THEN {"bad_json", "incomplete", "no_address", "ok"}
                  ELSE {"bad_json"}}
    [] branch \in {"product_selection", "all_selection"} ->
         {[DefaultEnv EXCEPT !.sugg = g] : g \in SuggestionChoices}
    [] branch \in {"otp_input", "password_input", "clear_all"} ->
         {[DefaultEnv EXCEPT !.storage = e] : e \in {"ok", "auth_error"}}
    [] branch \in {"phone_input", "resend_otp"} ->
         {[DefaultEnv EXCEPT !.otp = o] : o \in OtpValues}
    [] branch = "retailer_for_item" ->
         {[DefaultEnv EXCEPT !.price = p] : p \in {"N/A", "available"}}
    [] branch = "ai" ->
         UNION {
           IF pi.intent = "order" /\ Has(pi, "address")
           THEN {[DefaultEnv EXCEPT !.parsed = pi, !.addressValid = v] : v \in BOOLEAN}
           ELSE IF pi.intent = "product_selection"
           THEN {[DefaultEnv EXCEPT !.parsed = pi, !.sugg = g] : g \in SuggestionChoices}
           ELSE {[DefaultEnv EXCEPT !.parsed = pi]} : pi \in parseMessage(message)}
    [] OTHER -> {DefaultEnv}

\* the world as processMessage finds it for the next message
NextMessage(w) ==
  [w EXCEPT !.trace = <<>>, !.replies = <<>>, !.saved = <<>>, !.added = <<>>]

\* the user answers the item that showNextCheckoutItem presents as the prompt
\* says: '<retailer> for <itemName>' (a retailer with a price) or
\* 'skip <itemName>'
AnswerPresentedItem(w, choice) ==
  LET itemName == getCartItemsCombined(w)[CurrentIndex(w.session) + 1].name
  IN processMessage(NextMessage(w),
                    IF choice = "skip" THEN "skip " \o itemName
                    ELSE "zepto for " \o itemName,
                    "text", [DefaultEnv EXCEPT !.price = "available"])

\* the world after the first k answers of a walk
RECURSIVE AfterAnswers(_, _, _)
AfterAnswers(w, choices, k) ==
  IF k = 0 THEN w ELSE AnswerPresentedItem(AfterAnswers(w, choices, k - 1), choices[k])

(***************************************************************************)
(* The state machine                                                       *)
(***************************************************************************)
World ==
  [userExists |-> userExists, allowed |-> allowed, session |-> session,
   credentials |-> credentials, address |-> address, activeCart |-> activeCart,
   cartItems |-> cartItems, trace |-> <<>>, replies |-> <<>>, saved |-> <<>>,
   added |-> <<>>, thrown |-> "none", otp |-> otp, carts |-> carts]

Init ==
  /\ userExists = FALSE
  /\ allowed = TRUE
  /\ session = EmptySession
  /\ credentials = [r \in SUPPORTED_RETAILERS |-> NoRow]
  /\ address = "none"
  /\ activeCart = NoCart
  /\ cartItems = <<>>
  /\ lastMsg = [text |-> "", type |-> "none"]
  /\ trace = <<>>
  /\ replies = <<>>
  /\ saved = <<>>
  /\ added = <<>>
  /\ otp = "none"
  /\ inflight = [p \in Handlers |-> IdleHandler]
  /\ carts = <<>>
  /\ ordering = [p \in Handlers |-> IdleOrder]
  /\ classifier = NoCall

\* the webhook receives one of the messages and processMessage handles it
Receive(messages) ==
  \E m \in messages :
    \E env \in Envs(Branch(userExists, getUserSession(session), m.text, m.type),
                     m.text) :
      \E w \in {processMessage(World, m.text, m.type, env)} :
         /\ CurrentIndex(w.session) <= MaxIndex
         /\ Len(Selected(w.session)) <= MaxSelected
         /\ Len(w.carts) <= MaxCarts
         /\ userExists' = w.userExists
         /\ allowed' = w.allowed
         /\ session' = w.session
         /\ credentials' = w.credentials
         /\ address' = w.address
         /\ activeCart' = w.activeCart
         /\ cartItems' = w.cartItems
         /\ lastMsg' = m
         /\ trace' = w.trace
         /\ replies' = w.replies
         /\ saved' = w.saved
         /\ added' = w.added
         /\ otp' = w.otp
         /\ inflight' = inflight
         /\ carts' = w.carts
         /\ ordering' = ordering
         /\ classifier' = classifier

ProcessMessage == Receive(InboundMessages)

Next == ProcessMessage

Spec == Init /\ [][Next]_vars

ProcessAuthMessage == Receive(AuthMessages)

NextAuth == ProcessAuthMessage

SpecAuth == Init /\ [][NextAuth]_vars

(***************************************************************************)
(* Two messages of one user handled concurrently.  The webhook awaits      *)
(* processMessage per request and nothing queues the requests of a user,   *)
(* so two handleSkipItem calls interleave at their awaits: each reads the  *)
(* session (getUserSession) and later writes it (updateUserSession).       *)
(***************************************************************************)
\* handleSkipItem up to the checkout_mode test: the session is read
SkipItemRead(p) ==
  /\ userExists
  /\ inflight[p].pc # "read"
  /\ \E w \in {Call(World, "handleSkipItem")} :
       /\ lastMsg' = [text |-> "skip bread", type |-> "text"]
       /\ trace' = w.trace
       /\ saved' = w.saved
       /\ added' = w.added
       /\ IF ~Has(getUserSession(w.session), "checkout_mode")
          THEN /\ replies' = sendMessage(w, "no_active_checkout").replies
               /\ inflight' = [inflight EXCEPT ![p] = IdleHandler]
          ELSE /\ replies' = w.replies
               /\ inflight' = [inflight EXCEPT ![p] =
                                 [pc |-> "read",
                                  userSession |-> getUserSession(w.session),
                                  stale |-> FALSE]]
  /\ UNCHANGED <<userExists, allowed, session, credentials, address, activeCart,
                 cartItems, otp, carts, ordering, classifier>>

\* a write that advances the index stored at the time of the write
SkipItemDataFresh(stored, userSession) ==
  With(stored, "checkout_current_item", CurrentIndex(stored) + 1)

\* { ...userSession, checkout_current_item: nextIndex } of handleSkipItem
SkipItemData(stored, userSession) ==
  With(userSession, "checkout_current_item", CurrentIndex(userSession) + 1)

\* the rest of handleSkipItem: the session read before is written back
SkipItemWrite(p) ==
  /\ inflight[p].pc = "read"
  /\ \E w \in {sendMessage(Call(World, "handleSkipItem"), "skipped")} :
       \E w2 \in {IF getActiveCart(w) = NoCart
                   THEN sendMessage(w, "error")
                   ELSE showNextCheckoutItem(
                          SetSession(w, SkipItemData(getUserSession(w.session),
                                                     inflight[p].userSession)),
                          getCartItemsCombined(w),
                          CurrentIndex(inflight[p].userSession) + 1)} :
         /\ CurrentIndex(w2.session) <= MaxIndex
         /\ session' = w2.session
         /\ lastMsg' = [text |-> "skip bread", type |-> "text"]
         /\ trace' = w2.trace
         /\ replies' = w2.replies
         /\ saved' = w2.saved
         /\ added' = w2.added
  /\ inflight' = [q \in Handlers |->
                    IF q = p THEN [inflight[q] EXCEPT !.pc = "done"]
                    ELSE IF inflight[q].pc = "read"
                    THEN [inflight[q] EXCEPT !.stale = TRUE]
                    ELSE inflight[q]]
  /\ UNCHANGED <<userExists, allowed, credentials, address, activeCart,
                 cartItems, otp, carts, ordering, classifier>>

RaceMessages ==
  [text : { "zepto a@b.co hunter2", "deliver to 12 Main St", "yes",
            "order milk and bread", "add bread", "checkout", "edit cart" },
   type : {"text"}]

ProcessRaceMessage == Receive(RaceMessages)

NextRace ==
  \/ ProcessRaceMessage
  \/ \E p \in Handlers : SkipItemRead(p)
  \/ \E p \in Handlers : SkipItemWrite(p)

SpecRace == Init /\ [][NextRace]_vars

(***************************************************************************)
(* Two order messages of one user handled concurrently: handleOrderIntent  *)
(* from its cart lookup on, split at its awaits.  createCart is two        *)
(* statements, each a query of its own on the pool, without a transaction. *)
(***************************************************************************)
\* cartService.getActiveCart(user.id), reached by a connected user whose
\* address is confirmed
OrderGetActiveCart(p) ==
  /\ userExists
  /\ getAllRetailerCredentials(World) # {}
  /\ address = "confirmed"
  /\ ordering[p].pc \in {"idle", "done"}
  /\ lastMsg' = [text |-> "order milk and bread", type |-> "text"]
  /\ trace' = <<"parseMessage", "handleOrderIntent">>
  /\ replies' = <<>>
  /\ saved' = <<>>
  /\ added' = <<>>
  /\ ordering' = [ordering EXCEPT ![p] =
                    IF getActiveCart(World) = NoCart
                    THEN [pc |-> "cancel", cart |-> NoCart]
                    ELSE [pc |-> "session", cart |-> getActiveCart(World)]]
  /\ UNCHANGED <<userExists, allowed, session, credentials, address, activeCart,
                 cartItems, otp, inflight, carts, classifier>>

\* createCart, first statement: the drafts of the user are cancelled
CreateCartCancel(p) ==
  /\ ordering[p].pc = "cancel"
  /\ carts' = CancelDrafts(carts)
  /\ activeCart' = NoCart
  /\ cartItems' = <<>>
  /\ ordering' = [ordering EXCEPT ![p].pc = "insert"]
  /\ UNCHANGED <<userExists, allowed, session, credentials, address, lastMsg,
                 trace, replies, saved, added, otp, inflight, classifier>>

\* createCart, second statement: a draft is inserted; it is the latest draft
CreateCartInsert(p) ==
  /\ ordering[p].pc = "insert"
  /\ Len(carts) < MaxCarts
  /\ carts' = Append(carts, "draft")
  /\ activeCart' = Len(carts) + 1
  /\ cartItems' = <<>>
  /\ trace' = Append(trace, "createCart")
  /\ ordering' = [ordering EXCEPT ![p] = [pc |-> "session", cart |-> Len(carts) + 1]]
  /\ UNCHANGED <<userExists, allowed, session, credentials, address, lastMsg,
                 replies, saved, added, otp, inflight, classifier>>

\* the rest of handleOrderIntent: the order is stored in the session and the
\* suggestions are shown
OrderStoreSession(p) ==
  /\ ordering[p].pc = "session"
  /\ session' = updateUserSession(session,
                   [order_mode    |-> TRUE,
                    order_items   |-> ParsedIntents["order milk and bread"].items,
                    order_cart_id |-> ordering[p].cart])
  /\ lastMsg' = [text |-> "order milk and bread", type |-> "text"]
  /\ trace' = <<"parseMessage", "handleOrderIntent", "showOrderSuggestions">>
  /\ replies' = <<"product_suggestions">>
  /\ saved' = <<>>
  /\ added' = <<>>
  /\ ordering' = [ordering EXCEPT ![p].pc = "done"]
  /\ UNCHANGED <<userExists, allowed, credentials, address, activeCart, cartItems,
                 otp, inflight, carts, classifier>>

OrderRaceMessages ==
  [text : { "zepto a@b.co hunter2", "deliver to 12 Main St", "yes",
            "order milk and bread", "add bread", "checkout" },
   type : {"text"}]

ProcessOrderRaceMessage == Receive(OrderRaceMessages)

NextOrderRace ==
  \/ ProcessOrderRaceMessage
  \/ \E p \in Handlers : OrderGetActiveCart(p)
  \/ \E p \in Handlers : CreateCartCancel(p)
  \/ \E p \in Handlers : CreateCartInsert(p)
  \/ \E p \in Handlers : OrderStoreSession(p)

SpecOrderRace == Init /\ [][NextOrderRace]_vars

\* one call of aiService.parseMessage with the answers of the remote models
ParseMessage ==
  /\ \E message \in ParseTexts, openaiDisabled \in BOOLEAN,
         openai \in [1..Len(models) -> OpenAIAnswers],
         huggingFace \in HuggingFaceAnswers :
       \E r \in {parseMessageChain(message, openaiDisabled, openai, huggingFace)} :
         classifier' = [called |-> TRUE, message |-> message,
                        openaiDisabled |-> openaiDisabled, openai |-> openai,
                        huggingFace |-> huggingFace,
                        result |-> r.result, attempts |-> r.attempts]
  /\ UNCHANGED <<userExists, allowed, session, credentials, address, activeCart,
                 cartItems, lastMsg, trace, replies, saved, added, otp, inflight,
                 carts, ordering>>

NextParse == ParseMessage

SpecParse == Init /\ [][NextParse]_vars

ProcessSubscriptionMessage == Receive(SubscriptionMessages)

NextSubscription == ProcessSubscriptionMessage

SpecSubscription == Init /\ [][NextSubscription]_vars

ProcessCartMessage == Receive(CartMessages)

NextCart == ProcessCartMessage

SpecCart == Init /\ [][NextCart]_vars

(***************************************************************************)
(* Properties.  trace, replies, saved and added hold what processMessage   *)
(* called, sent, saved and added while handling lastMsg.                   *)
(***************************************************************************)
Among(seq, x) == \E i \in DOMAIN seq : seq[i] = x

\* userSession[k], undefined when the key is absent
Key(obj, k) == IF Has(obj, k) THEN obj[k] ELSE Null

\* the session is at step auth_step of flow auth_flow
InAuthStep(userSession, flow, step) ==
  Key(userSession, "auth_flow") = flow /\ Key(userSession, "auth_step") = step

FlowMarkers == {"auth_flow", "checkout_mode", "order_mode"}

\* C1: whatever session S is stored, the clear updateUserSession(userId, {})
\* followed by getUserSession(userId) returns the empty session {}
C1_ClearThenGetIsEmpty ==
  getUserSession(updateUserSession(session, EmptySession)) = EmptySession

\* C2: when the auth flow completes (handleOTPInput accepts a 6-digit code,
\* handlePasswordInput accepts a text), the session read afterwards has no
\* auth_flow, auth_step, retailer, phone_number or email
C2_AuthCompletionEndsFlow ==
  (/\ Among(replies, "auth_success")
   /\ Among(trace, "handleOTPInput") \/ Among(trace, "handlePasswordInput"))
  => \A k \in {"auth_flow", "auth_step", "retailer", "phone_number", "email"} :
       ~Has(getUserSession(session), k)

\* C3: after any message the session holds at most one of the flow markers
\* auth_flow, checkout_mode, order_mode
C3_AtMostOneFlow ==
  Cardinality({k \in FlowMarkers : Has(getUserSession(session), k)}) <= 1

\* C4: a registered user's 'clear session', 'reset', 'clear all' or
\* 'reset all' is handled by the reset branch before any pattern, step
\* handler or classifier call, and the session read afterwards is empty
C4_ResetEmptiesSession ==
  (/\ lastMsg.text \in {"clear session", "reset", "clear all", "reset all"}
   /\ ~Among(trace, "createUser"))
  => /\ trace # <<>>
     /\ \A i \in DOMAIN trace : trace[i] \in {"clearSession", "clearAll"}
     /\ getUserSession(session) = EmptySession

\* C5: 'confirm order' sent while no checkout flow is active, or while
\* checkout_current_item is below the number of checkout items, is rejected:
\* no 'Order Confirmed' reply, and the session stays as it was
C5_ConfirmOrderNeedsFinishedCheckout ==
  [][(/\ lastMsg'.text = "confirm order"
      /\ userExists
      /\ \/ ~Has(session, "checkout_mode")
         \/ CurrentIndex(session) < Len(session.checkout_items))
     => /\ ~Among(replies', "order_confirmed")
        /\ session' = session]_vars

\* C6: an auth flow started with 'login R' keeps retailer = R in the session
\* at every step of the flow, and the credentials saved at its end are
\* saved for R
C6_AuthFlowKeepsRetailer ==
  [][(/\ Has(session, "retailer")
      /\ \E h \in {"handlePhoneLoginMethod", "handleEmailLoginMethod",
                   "handlePhoneNumberInput", "handleEmailInput",
                   "handleOTPInput", "handlePasswordInput"} : Among(trace', h))
     => /\ Has(session', "retailer") => session'.retailer = session.retailer
        /\ \A i \in DOMAIN saved' : saved'[i].retailer = session.retailer]_vars

\* C7: a successful 'add selected' adds every item of order_items to the
\* cart, with its selected product or as a bare item
C7_AddSelectedAddsEveryOrderItem ==
  [][(/\ lastMsg'.text = "add selected"
      /\ Among(replies', "added_to_cart")
      /\ Has(session, "order_items"))
     => \A i \in DOMAIN session.order_items :
          \E j \in DOMAIN added' : added'[j].name = session.order_items[i].name]_vars

\* C8: when no order flow is active (none was started, or the last one ended
\* through a successful 'add selected' or through 'cancel order'), handling
\* 'add selected' answers 'no items selected', adds nothing and changes
\* neither cart nor session
C8_AddSelectedNeedsOrderFlow ==
  (/\ userExists
   /\ \/ ~Has(getUserSession(session), "order_mode")
      \/ lastMsg.text = "add selected" /\ Among(replies, "added_to_cart")
      \/ lastMsg.text = "cancel order")
  => \A w \in {processMessage(World, "add selected", "text", DefaultEnv)} :
        /\ Among(w.replies, "no_items_selected")
        /\ w.added = <<>>
        /\ w.cartItems = cartItems
        /\ w.session = session

\* C9: 'cancel checkout' or 'cancel order' sent in any state of a checkout
\* or order flow leaves the session empty, and a following 'skip <item>',
\* '<retailer> for <item>' or 'add selected' is rejected as having no active
\* flow
C9_CancelEndsFlow ==
  [][(/\ userExists
      /\ Has(session, "checkout_mode") \/ Has(session, "order_mode")
      /\ lastMsg'.text \in {"cancel checkout", "cancel order"})
     => /\ getUserSession(session') = EmptySession
        /\ \A t \in {"skip milk", "zepto for milk"} : \A p \in {"N/A", "available"} :
             Among(processMessage(World', t, "text",
                                  [DefaultEnv EXCEPT !.price = p]).replies,
                   "no_active_checkout")
        /\ Among(processMessage(World', "add selected", "text", DefaultEnv).replies,
                 "no_items_selected")]_vars

\* C10: a registered user's text of the shape '<digits> for <text>' is
\* handled, in every session state, by handleProductSelection and never by
\* handleRetailerSelectionForCheckout
C10_DigitsForIsProductSelection ==
  (/\ lastMsg.text \in {"1 for milk", "3 for milk", "1 for bread"}
   /\ lastMsg.type = "text"
   /\ ~Among(trace, "createUser"))
  => /\ Among(trace, "handleProductSelection")
     /\ ~Among(trace, "handleRetailerSelectionForCheckout")

\* '3 for milk', which both patterns match, sent during a checkout and
\* handled by handleProductSelection
C10_Witness ==
  /\ lastMsg = [text |-> "3 for milk", type |-> "text"]
  /\ productSelectionPattern("3 for milk") # NoMatch
  /\ retailerSelectionPattern("3 for milk") # NoMatch
  /\ Has(session, "checkout_mode")
  /\ Among(trace, "handleProductSelection")

\* C11: 'phone', '1', 'email', '2' move the session into phone_input or
\* email_input only when it awaits a login-method choice (a retailer stored
\* by 'login <retailer>', no method chosen); in any other session state they
\* start or alter no auth flow
C11_MethodTokenNeedsMethodSelection ==
  [][(/\ userExists
      /\ lastMsg'.text \in {"phone", "1", "email", "2"}
      /\ ~(Has(session, "retailer") /\ ~Has(session, "auth_flow")))
     => \A k \in {"auth_flow", "auth_step"} : Key(session', k) = Key(session, k)]_vars

\* C12: in phone_input, otp_input and email_input a text that fails the
\* step's validation ('2' or 'email' included) leaves the session as it was
\* and only re-prompts
C12_InvalidInputKeepsSession ==
  [][(/\ userExists
      /\ lastMsg'.text \in {"phone", "1", "email", "2", "12345", "hunter2",
                            "a@b.co", "+919876543210", "482913"}
      /\ \/ /\ InAuthStep(session, "phone_login", "phone_input")
            /\ ~phoneRegex(StripSpaces(lastMsg'.text))
         \/ /\ InAuthStep(session, "phone_login", "otp_input")
            /\ ~otpRegex(lastMsg'.text)
         \/ /\ InAuthStep(session, "email_login", "email_input")
            /\ ~emailRegex(lastMsg'.text))
     => /\ session' = session
        /\ \E tag \in {"invalid_phone", "invalid_otp", "invalid_email"} :
             replies' = <<tag>>]_vars

\* C13: in password_input every text message is taken as the password:
\* credentials are saved (when the storage accepts the row) for the
\* session's retailer with the stored email as login id and login type
\* 'email'
C13_PasswordStepAcceptsEveryText ==
  [][(/\ userExists
      /\ InAuthStep(session, "email_login", "password_input")
      /\ lastMsg'.type = "text"
      /\ ~Among(trace', StorageError))
     => saved' = <<[retailer   |-> IF Has(session, "retailer")
                                   THEN session.retailer ELSE "zepto",
                    login_id   |-> Key(session, "email"),
                    login_type |-> "email"]>>]_vars

\* C14: in otp_input every 6-digit message is accepted whatever OTP was
\* generated: credentials are saved (when the storage accepts the row) with
\* the session's phone_number as login id and login type 'phone'
C14_AnySixDigitsAccepted ==
  [][(/\ userExists
      /\ InAuthStep(session, "phone_login", "otp_input")
      /\ lastMsg' = [text |-> "482913", type |-> "text"]
      /\ ~Among(trace', StorageError))
     => /\ Among(replies', "auth_success")
        /\ saved' = <<[retailer   |-> Key(session, "retailer"),
                       login_id   |-> Key(session, "phone_number"),
                       login_type |-> "phone"]>>]_vars

\* a 6-digit message other than the OTP generated last has been accepted
C14_Witness ==
  /\ lastMsg.text = "482913"
  /\ otp = "271828"
  /\ Among(replies, "auth_success")
  /\ saved # <<>> /\ saved[1].login_type = "phone"

\* C15: 'login <retailer>' or the classifier's intent 'authentication'
\* stores the retailer and prompts for a login method when the retailer is
\* supported and the user has no credentials for it; otherwise (retailer
\* missing, unsupported or already connected) the session is unchanged
C15_LoginStartsFlowOnlyForNewRetailer ==
  [][(/\ userExists
      /\ \/ lastMsg'.text \in {"Login Blinkit", "login zepto", "login amazon"}
         \/ /\ lastMsg'.text \in {"connect my account", "connect blinkit"}
            /\ Among(trace', "handleAuthenticationIntent"))
     => LET r == CASE lastMsg'.text \in {"Login Blinkit", "connect blinkit"} -> "blinkit"
                   [] lastMsg'.text = "login zepto" -> "zepto"
                   [] lastMsg'.text = "login amazon" -> "amazon"
                   [] OTHER -> Null
        IN /\ Among(trace', "handleAuthenticationIntent")
           /\ IF r \in {"zepto", "blinkit", "instamart"} /\ credentials[r] = NoRow
              THEN /\ session' = With(session, "retailer", r)
                   /\ replies' = <<"choose_login_method">>
              ELSE /\ session' = session
                   /\ ~Among(replies', "choose_login_method")]_vars

\* 'login zepto' of a user connected to zepto, in a non-empty session
C15_Witness ==
  /\ lastMsg.text = "login zepto"
  /\ credentials["zepto"] # NoRow
  /\ Among(replies, "already_connected")
  /\ session # EmptySession

\* C16: 'resend otp' / 'resend' sends a new OTP only in the phone flow at
\* step otp_input and otherwise replies that there is no active OTP request;
\* the session is unchanged in both cases
C16_ResendOnlyInOtpStep ==
  [][(/\ userExists
      /\ lastMsg'.text \in {"resend otp", "resend"})
     => /\ session' = session
        /\ IF InAuthStep(session, "phone_login", "otp_input")
           THEN replies' = <<"new_otp_sent">>
           ELSE replies' = <<"no_active_otp">>]_vars

\* a resend outside otp_input, in a session that holds an auth flow
C16_Witness ==
  /\ lastMsg.text = "resend"
  /\ Has(session, "auth_flow")
  /\ replies = <<"no_active_otp">>

\* C17: 'checkout' enters the checkout flow (checkout_mode, checkout_step =
\* item_selection, checkout_items = the cart's item names,
\* checkout_current_item = 0) only when the user has an authenticated
\* retailer and an active cart with an item; otherwise it sends a guidance
\* message and the session is unchanged
C17_CheckoutNeedsRetailerAndItems ==
  [][(/\ userExists
      /\ lastMsg'.text = "checkout")
     => IF /\ \E r \in DOMAIN credentials : credentials[r] # NoRow
           /\ activeCart # NoCart
           /\ Len(cartItems) >= 1
        THEN /\ session' = JsonbConcat(session,
                             [checkout_mode         |-> TRUE,
                              checkout_step         |-> "item_selection",
                              checkout_items        |-> ProductNames(cartItems),
                              checkout_current_item |-> 0])
             /\ Among(replies', "checkout_item")
        ELSE /\ session' = session
             /\ replies' \in {<<"connect_retailers_first">>, <<"cart_empty">>}]_vars

\* 'checkout' of a connected user with an item in the cart has started the flow
C17_Witness ==
  /\ lastMsg.text = "checkout"
  /\ Len(cartItems) >= 1
  /\ Among(trace, "handleCheckoutIntent")
  /\ Among(replies, "checkout_item")
  /\ Key(session, "checkout_current_item") = 0
  /\ Key(session, "checkout_items") = ProductNames(cartItems)

\* C18: checkout_current_item stays between 0 and the number of checkout
\* items; select / skip commands after the last item do not push it past
\* the count
C18_IndexWithinCheckoutItems ==
  Has(session, "checkout_items")
    => /\ 0 <= CurrentIndex(session)
       /\ CurrentIndex(session) <= Len(session.checkout_items)

\* C19: 'edit cart' in an active checkout sets checkout_current_item to 0
\* and changes nothing else (the other session keys and the retailers
\* selected on the cart items are kept); with no active checkout it only
\* replies that there is no active checkout session
C19_EditCartOnlyResetsIndex ==
  [][(/\ userExists
      /\ lastMsg'.text = "edit cart")
     => IF Has(session, "checkout_mode")
        THEN /\ session' = With(session, "checkout_current_item", 0)
             /\ cartItems' = cartItems
             /\ activeCart' = activeCart
             /\ credentials' = credentials
             /\ address' = address
        ELSE /\ session' = session
             /\ cartItems' = cartItems
             /\ replies' = <<"no_active_checkout">>]_vars

\* 'edit cart' in a checkout whose cart holds a retailer selection
C19_Witness ==
  /\ lastMsg.text = "edit cart"
  /\ Has(session, "checkout_mode")
  /\ Key(session, "checkout_current_item") = 0
  /\ Among(replies, "checkout_item")
  /\ \E i \in DOMAIN cartItems : cartItems[i].retailer # "none"

\* C20: a session in the order flow holds at least one order item: an order
\* intent with an empty or missing item list never sets order_mode
C20_OrderModeNeedsItems ==
  Has(session, "order_mode")
    => /\ Has(session, "order_items")
       /\ Len(session.order_items) >= 1

\* C21: in order mode selected_order_items holds at most one entry per item
\* name selected with 'N for <item>' (a later selection for a name replaces
\* the earlier one)
C21_OneSelectionPerItemName ==
  (Has(session, "order_mode") /\ Has(session, "order_items")
     /\ Len(session.order_items) >= 1)
    => \A i, j \in DOMAIN Selected(session) :
         Selected(session)[i].selectedProduct.item
           = Selected(session)[j].selectedProduct.item => i = j

\* C22: the order intent of a user without authenticated retailers is
\* answered with 'connect your retailer accounts first' and nothing else
\* happens: session unchanged, no cart created, no address saved
C22_OrderNeedsConnectedRetailer ==
  [][(/\ userExists
      /\ Among(trace', "handleOrderIntent")
      /\ \A r \in DOMAIN credentials : credentials[r] = NoRow)
     => /\ replies' = <<"connect_retailers_first">>
        /\ session' = session
        /\ activeCart' = activeCart
        /\ cartItems' = cartItems
        /\ address' = address]_vars

\* an order with an address of a user without retailer accounts was refused
C22_Witness ==
  /\ lastMsg.text = "order milk and bread to 12 Main St"
  /\ Among(trace, "handleOrderIntent")
  /\ replies = <<"connect_retailers_first">>
  /\ \A r \in DOMAIN credentials : credentials[r] = NoRow
  /\ address = "none" /\ activeCart = NoCart

\* C23: when a new user (no retailer account, no address, empty session)
\* sends an order message that contains a delivery address, the address is
\* saved unconfirmed and a confirmation is requested (or, when the address
\* cannot be validated, the address is asked for)
C23_NewUserOrderSavesAddress ==
  [][(/\ lastMsg'.text = "order milk and bread to 12 Main St"
      /\ session = EmptySession
      /\ address = "none"
      /\ \A r \in DOMAIN credentials : credentials[r] = NoRow)
     => \/ address' = "unconfirmed" /\ replies' = <<"confirm_address">>
        \/ address' = "none" /\ replies' = <<"provide_address">>]_vars

C25_ClassifierOnlyForUnclaimedMessages ==
  \A m \in AuthMessages :
    \A env \in Envs(Branch(userExists, getUserSession(session), m.text, m.type), m.text) :
      \A w \in {processMessage(World, m.text, m.type, env)} :
        /\ Cardinality({i \in DOMAIN w.trace : w.trace[i] = "parseMessage"}) <= 1
        /\ Among(w.trace, "parseMessage")
             => /\ userExists
                /\ m.text \notin {"clear session", "reset all", "Login Blinkit",
                                  "login zepto", "login amazon", "phone", "1",
                                  "email", "2", "resend otp", "resend"}
                /\ ~InAuthStep(session, "phone_login", "phone_input")
                /\ ~InAuthStep(session, "phone_login", "otp_input")
                /\ ~InAuthStep(session, "email_login", "email_input")
                /\ ~InAuthStep(session, "email_login", "password_input")

\* a text that is no command, sent outside the auth steps, went to the
\* classifier once
C25_Witness ==
  /\ lastMsg.text = "connect my account"
  /\ trace = <<"parseMessage", "handleAuthenticationIntent">>
  /\ session # EmptySession

C27_ClearAllWipesCredentialsAndCart ==
  [][(userExists /\ lastMsg'.type = "text" /\ ~Among(trace', StorageError))
     => /\ lastMsg'.text \in {"clear all", "reset all"}
             => /\ \A r \in DOMAIN credentials' : credentials'[r] = NoRow
                /\ cartItems' = <<>>
                /\ activeCart' = activeCart
        /\ lastMsg'.text \in {"clear session", "reset"}
             => /\ credentials' = credentials
                /\ cartItems' = cartItems
                /\ activeCart' = activeCart]_vars

\* 'reset all' of a user whose cart had been filled and checked out
C27_Witness ==
  /\ lastMsg.text = "reset all"
  /\ replies = <<"all_data_cleared">>
  /\ Has(session, "checkout_items")
  /\ activeCart # NoCart
  /\ cartItems = <<>>
  /\ \A r \in DOMAIN credentials : credentials[r] = NoRow

\* C28: session updates are not serialised per user: a 'skip <item>'
\* handler writes the index it read plus one, whatever another handler has
\* written since, so that the later of two concurrent writes overwrites the
\* earlier transition
C28_WriteUsesTheSessionRead ==
  [][\A p \in Handlers :
       (inflight[p].pc = "read" /\ inflight'[p].pc = "done")
         => CurrentIndex(session') = CurrentIndex(inflight[p].userSession) + 1]_vars

\* both handlers read the same session at index 0 before either wrote, and
\* both have written: the index is 1, not 2
C28_Witness ==
  /\ \A p \in Handlers : inflight[p].pc = "done"
  /\ \E p \in Handlers : inflight[p].stale
  /\ inflight[1].userSession = inflight[2].userSession
  /\ CurrentIndex(inflight[1].userSession) = 0
  /\ lastMsg.text = "skip bread"
  /\ Among(replies, "skipped")
  /\ CurrentIndex(session) = 1

\* C29: whenever a query on retailer_credentials fails while a message is
\* handled, in any handler, the user gets the 'set up your account' message
\* and not the generic apology
C29_AuthStorageErrorGetsSetupMessage ==
  Among(trace, StorageError)
    => /\ Among(replies, "setup_account")
       /\ ~Among(replies, "error")
       /\ ~Among(replies, "generic_apology")

\* C30: in phone_input a text is accepted as a phone number (the session
\* moves to otp_input) exactly when, white space removed, it is a '+'
\* followed by 2 to 15 digits; a digit string without the '+' is rejected
C30_PhoneNumberNeedsPlus ==
  [][(/\ userExists
      /\ InAuthStep(session, "phone_login", "phone_input")
      /\ lastMsg'.text \in {"+919876543210", "482913", "12345", "a@b.co", "hunter2"})
     => \A t \in {StripSpaces(lastMsg'.text)} :
          IF /\ Len(t) >= 3 /\ Len(t) <= 16
             /\ Ch(t, 1) = "+"
             /\ Run(t, 2, "D") = Len(t) - 1
          THEN /\ Key(session', "auth_step") = "otp_input"
               /\ Key(session', "phone_number") = lastMsg'.text
          ELSE /\ session' = session
               /\ replies' = <<"invalid_phone">>]_vars

\* C31: from the empty session on, every reachable session holds auth_flow
\* and auth_step either both absent or both present and consistent:
\* phone_login with phone_input or otp_input, email_login with email_input
\* or password_input
C31_AuthFlowHasMatchingStep ==
  \/ ~Has(session, "auth_flow") /\ ~Has(session, "auth_step")
  \/ /\ Key(session, "auth_flow") = "phone_login"
     /\ Key(session, "auth_step") \in {"phone_input", "otp_input"}
  \/ /\ Key(session, "auth_flow") = "email_login"
     /\ Key(session, "auth_step") \in {"email_input", "password_input"}

\* the email flow at its second step, entered from a phone flow that had
\* reached otp_input
C31_Witness ==
  /\ lastMsg.text = "a@b.co"
  /\ InAuthStep(session, "email_login", "password_input")
  /\ Has(session, "phone_number")
  /\ trace = <<"handleEmailInput">>

\* C32: after an auth flow has ended in success (handleOTPInput or
\* handlePasswordInput saved the credentials), the next message that matches
\* no direct pattern goes to the classifier and is not dispatched to
\* handleOTPInput or handlePasswordInput again
C32_AfterSuccessTheClassifierIsNext ==
  [][(/\ Among(replies, "auth_success")
      /\ Among(trace, "handleOTPInput") \/ Among(trace, "handlePasswordInput")
      /\ lastMsg'.type = "text"
      /\ PatternStageTable[lastMsg'.text] = "none")
     => /\ Among(trace', "parseMessage")
        /\ ~Among(trace', "handleOTPInput")
        /\ ~Among(trace', "handlePasswordInput")]_vars

\* C33: in handleOTPInput and handlePasswordInput the credentials are saved
\* before the session is cleared: when saveRetailerCredentials fails, the
\* session is left as it was (at otp_input / password_input with the stored
\* phone or email), nothing is saved, the user gets the handler's apology,
\* and no exception leaves the handler
C33_FailedSaveKeepsSession ==
  \A m \in AuthMessages :
    \A b \in {Branch(userExists, getUserSession(session), m.text, m.type)} :
      b \in {"otp_input", "password_input"} =>
        /\ \A w \in {processMessage(World, m.text, m.type,
                                    [DefaultEnv EXCEPT !.storage = "auth_error"])} :
             Among(w.trace, StorageError) =>
               /\ w.session = session
               /\ w.credentials = credentials
               /\ w.saved = <<>>
               /\ w.replies = <<"error">>
        /\ handleOTPInput(World, m.text, "auth_error").thrown = "none"
        /\ handlePasswordInput(World, m.text, "auth_error").thrown = "none"

\* a password was sent, the save failed, and the email flow is still at
\* password_input with the stored email
C33_Witness ==
  /\ lastMsg.text = "hunter2"
  /\ trace = <<"handlePasswordInput", StorageError>>
  /\ replies = <<"error">>
  /\ InAuthStep(session, "email_login", "password_input")
  /\ Key(session, "email") = "a@b.co"
  /\ saved = <<>>
  /\ \A r \in DOMAIN credentials : credentials[r] = NoRow

C35_AtMostOneDraftCart ==
  Cardinality(Drafts(carts)) <= 1

\* C36: in a checkout '<retailer> for <item>' and 'skip <item>' advance
\* checkout_current_item only when <item> is the checkout item at that index;
\* a message naming another item, or an item again after the walk has passed
\* it, leaves the index as it was
C36_OnlyTheCurrentItemAdvances ==
  [][(/\ userExists
      /\ Has(session, "checkout_mode")
      /\ lastMsg'.text \in {"skip milk", "zepto for milk"}
      /\ \/ CurrentIndex(session) >= Len(session.checkout_items)
         \/ session.checkout_items[CurrentIndex(session) + 1].name # "milk")
     => CurrentIndex(session') = CurrentIndex(session)]_vars

\* C37: a checkout walk terminates: once 'checkout' (or 'edit cart') has
\* been accepted for a cart of n items and the user answers each presented
\* item with an accepted '<retailer> for <item>' or with 'skip <item>', the
\* cart not being changed otherwise, the k-th answer leaves
\* checkout_current_item at k, and the final checkout cart is presented with
\* the n-th answer and not before
C37_CheckoutWalkTerminates ==
  (/\ userExists
   /\ lastMsg.text \in {"checkout", "edit cart"}
   /\ Has(session, "checkout_mode")
   /\ Among(replies, "checkout_item"))
  => /\ CurrentIndex(session) = 0
     /\ \A choices \in [1..Len(cartItems) -> {"select", "skip"}] :
          \A k \in 1..Len(cartItems) :
            \A w \in {AfterAnswers(World, choices, k)} :
              /\ CurrentIndex(w.session) = k
              /\ w.replies[1] = IF choices[k] = "skip" THEN "skipped"
                                ELSE "retailer_selected"
              /\ Among(w.replies, "final_checkout_cart") <=> k = Len(cartItems)
              /\ Among(w.replies, "checkout_item") <=> k < Len(cartItems)
              /\ Len(w.cartItems) = Len(cartItems)

\* 'checkout' was accepted for a cart of two items, and the walk that
\* selects a retailer for the first and skips the second ends with the final
\* cart at index 2
C37_Witness ==
  /\ lastMsg.text = "checkout"
  /\ Among(replies, "checkout_item")
  /\ Len(cartItems) = 2
  /\ CurrentIndex(session) = 0
  /\ \E w \in {AfterAnswers(World, <<"select", "skip">>, 2)} :
       /\ w.replies = <<"skipped", "final_checkout_cart">>
       /\ Among(w.trace, "handleSkipItem")
       /\ CurrentIndex(w.session) = 2

C39_StopUnsubscribesUntilStart ==
  [][/\ (userExists /\ lastMsg'.text \in {"stop", "unsubscribe"}) => ~allowed'
     /\ (userExists /\ ~allowed /\ lastMsg'.text = "start") => allowed'
     /\ (userExists /\ ~allowed /\ lastMsg'.text \notin {"start", "stop", "unsubscribe"})
          => /\ replies' = <<>>
             /\ session' = session
             /\ cartItems' = cartItems
             /\ credentials' = credentials]_vars

====
